---- MODULE Spec2Model ----
(***************************************************************************)
(* TETO Coffee backend (src/main.py, src/schemas.py): the HTTP handlers    *)
(* over a document store.  A collection is the sequence of its documents   *)
(* in insertion order; every handler is one action per database            *)
(* operation it issues, so a handler that looks up and then writes is two  *)
(* steps that other clients' steps can fall between.                       *)
(***************************************************************************)
EXTENDS Integers, Sequences, FiniteSets, TLC

VARIABLES db, nextId, pc, local, last

vars == <<db, nextId, pc, local, last>>

(***************************************************************************)
(* Bounds                                                                  *)
(***************************************************************************)
\* documents the store may hold in total (ObjectIds handed out)
MaxDocs == 3

\* clients whose requests may be in flight at the same time
NumClients == 2

Clients == 1..NumClients

(***************************************************************************)
(* Values                                                                  *)
(***************************************************************************)
\* Python's None, as stored in a document or returned in a body
None == "None"

\* validated e-mail addresses; two of them differ in letter case only
Emails == {"a@x.com", "A@x.com"}

Passwords == {"pw1", "pw2"}

Names == {"Ann", "Bob"}

\* values datetime.utcnow() may return
Times == {"t1", "t2"}

\* An identifier string as it arrives in a path or a body: hex says whether
\* it is 24 hexadecimal characters, oid is the ObjectId those characters
\* denote, upper whether the hex letters are written in upper case.
Malformed == [hex |-> FALSE, oid |-> 0, upper |-> FALSE]

HexStr(n, u) == [hex |-> TRUE, oid |-> n, upper |-> u]

IdStrs == {HexStr(n, u) : n \in 1..(MaxDocs + 1), u \in BOOLEAN} \cup {Malformed}

\* str(ObjectId): the lower-case hexadecimal rendering
str(oid) == HexStr(oid, FALSE)

\* an optional request field: <<>> when omitted, <<v>> when supplied
Opt(field, default) == IF Len(field) = 0 THEN default ELSE field[1]

(***************************************************************************)
(* schemas.py: the validated model, omitted fields replaced by defaults,   *)
(* as model_dump() returns it                                              *)
(***************************************************************************)
User(name, email, password_hash) ==
    [name |-> name, email |-> email, password_hash |-> password_hash,
     avatar_url |-> None, is_member |-> TRUE, loyalty_points |-> 0]

MenuItem(p) ==
    [title |-> p.title, description |-> Opt(p.description, None),
     price |-> p.price, category |-> p.category,
     image_url |-> Opt(p.image_url, None), is_active |-> Opt(p.is_active, TRUE)]

Reservation(p) ==
    [name |-> p.name, email |-> p.email, date |-> p.date, time |-> p.time,
     guests |-> p.guests, special_requests |-> Opt(p.special_requests, None),
     member_email |-> Opt(p.member_email, None),
     status |-> Opt(p.status, "confirmed")]

Event(p) ==
    [title |-> p.title, description |-> Opt(p.description, None),
     date |-> p.date, time |-> p.time, image_url |-> Opt(p.image_url, None),
     capacity |-> Opt(p.capacity, 50), price |-> Opt(p.price, 0)]

EventRegistration(p) ==
    [event_id |-> p.event_id, name |-> p.name, email |-> p.email,
     member_email |-> Opt(p.member_email, None), tier |-> Opt(p.tier, "guest")]

BlogPost(p) ==
    [title |-> p.title, content |-> p.content,
     image_url |-> Opt(p.image_url, None), author |-> Opt(p.author, "TETO Team"),
     tags |-> Opt(p.tags, <<>>), published_at |-> Opt(p.published_at, None)]

GalleryImage(p) ==
    [title |-> Opt(p.title, None), image_url |-> p.image_url,
     description |-> Opt(p.description, None)]

NewsletterSubscriber(p) ==
    [email |-> p.email, name |-> Opt(p.name, None),
     source |-> Opt(p.source, "website")]

ContactMessage(p) ==
    [name |-> p.name, email |-> p.email, message |-> p.message,
     topic |-> Opt(p.topic, "general")]

(***************************************************************************)
(* The document store                                                      *)
(***************************************************************************)
Collections ==
    {"user", "menuitem", "reservation", "event", "eventregistration",
     "blogpost", "galleryimage", "newslettersubscriber", "contactmessage",
     "analytics_event"}

\* an equality filter: every filtered field is present with that value
Matches(doc, filt) == \A k \in DOMAIN filt : k \in DOMAIN doc /\ doc[k] = filt[k]

\* collection.find_one(filter): <<>> for None, else <<the first match>>
find_one(coll, filt) ==
    LET hits == {i \in 1..Len(coll) : Matches(coll[i], filt)}
    IN  IF hits = {} THEN <<>>
        ELSE <<coll[CHOOSE i \in hits : \A j \in hits : i <= j]>>

\* collection.insert_one(doc) with the generated identifier oid
insert_one(coll, doc, oid) == Append(coll, [_id |-> oid] @@ doc)

\* update_one with an empty filter: the first document is the one updated
update_one_first(coll, oid, fields) ==
    [i \in 1..Len(coll) |-> IF i = 1 THEN fields @@ coll[i] ELSE coll[i]]

\* collection.update_one({"_id": oid}, {"$set": fields})
update_one(coll, oid, fields) ==
    [i \in 1..Len(coll) |->
        IF coll[i]._id = oid /\ (\A j \in 1..(i - 1) : coll[j]._id # oid)
        THEN fields @@ coll[i] ELSE coll[i]]

\* database.create_document: insert the dumped record; the caller's
\* response carries str(oid)
create_document(d, collection_name, data, oid) ==
    [d EXCEPT ![collection_name] = insert_one(@, data, oid)]

\* database.get_documents: every match, in store order, _id included
get_documents(d, collection_name, filt) ==
    SelectSeq(d[collection_name], LAMBDA doc : Matches(doc, filt))

\* dict.pop(key, None)
pop(doc, key) == [f \in DOMAIN doc \ {key} |-> doc[f]]

\* d["id"] = str(d.pop("_id", ""))
rename_id(doc) == [id |-> str(doc._id)] @@ pop(doc, "_id")

Map(s, F(_)) == [i \in 1..Len(s) |-> F(s[i])]

(***************************************************************************)
(* Utility                                                                 *)
(***************************************************************************)
\* ObjectId(id_str) succeeds on 24 hexadecimal characters of either case
ObjectId_valid(id_str) == id_str.hex

\* to_object_id: the ObjectId, or 0 where it raises HTTP 400
to_object_id(id_str) == IF ObjectId_valid(id_str) THEN id_str.oid ELSE 0

\* hash_password: sha256 hex digest (collision-free on Passwords)
hash_password(password) == <<"sha256", password>>

\* the login token: sha256 of "email:_id"
token(email, oid) == <<"sha256", email, oid>>

(***************************************************************************)
(* Responses                                                               *)
(***************************************************************************)
Response(op, args, status, body) ==
    [op |-> op, args |-> args, status |-> status, body |-> body]

HTTPException(op, args, status_code, detail) ==
    Response(op, args, status_code, [detail |-> detail])

NoLocals == [args |-> <<>>, found |-> <<>>]

Idle(c) == pc[c] = "idle"

\* a handler that returns in the step it started in
Return(c, r) ==
    /\ last' = [last EXCEPT ![c] = r]
    /\ UNCHANGED <<pc, local>>

\* a handler returning from its second step
Finish(c, r) ==
    /\ last' = [last EXCEPT ![c] = r]
    /\ pc' = [pc EXCEPT ![c] = "idle"]
    /\ local' = [local EXCEPT ![c] = NoLocals]

\* a handler pausing between its lookup and its write
Pause(c, op, args, found) ==
    /\ pc' = [pc EXCEPT ![c] = op]
    /\ local' = [local EXCEPT ![c] = [args |-> args, found |-> found]]
    /\ UNCHANGED last

Init ==
    /\ db = [n \in Collections |-> <<>>]
    /\ nextId = 1
    /\ pc = [c \in Clients |-> "idle"]
    /\ local = [c \in Clients |-> NoLocals]
    /\ last = [c \in Clients |-> Response("none", <<>>, 0, <<>>)]

(***************************************************************************)
(* Liveness marker and diagnostic.  The database handle is the connected   *)
(* one throughout (every other handler dereferences it unguarded), so      *)
(* test_database takes its "db is not None" branch; url_set is whether     *)
(* the DATABASE_URL environment variable is set.                           *)
(***************************************************************************)
root(c) ==
    /\ Idle(c)
    /\ Return(c, Response("root", <<>>, 200,
                          [service |-> "TETO Coffee Backend", status |-> "ok"]))
    /\ UNCHANGED <<db, nextId>>

\* the store lists the collections that hold a document
list_collection_names == {n \in Collections : db[n] # <<>>}

test_database(c, url_set) ==
    /\ Idle(c)
    /\ Return(c, Response("test_database", url_set, 200,
           [backend |-> "Running",
            database |-> "Connected & Working",
            database_url |-> IF url_set THEN "Set" ELSE "Not Set",
            database_name |-> "db.name",
            connection_status |-> "Connected",
            collections |-> list_collection_names]))
    /\ UNCHANGED <<db, nextId>>

(***************************************************************************)
(* Menu                                                                    *)
(***************************************************************************)
\* list_menu with the is_active filter lost
list_menu_unfiltered(c) ==
    /\ Idle(c)
    /\ LET items == get_documents(db, "menuitem", <<>>)
       IN  Return(c, Response("list_menu", <<>>, 200,
                              Map(items, LAMBDA i : pop(i, "_id"))))
    /\ UNCHANGED <<db, nextId>>

list_menu(c) ==
    /\ Idle(c)
    /\ LET items == get_documents(db, "menuitem", [is_active |-> TRUE])
       IN  Return(c, Response("list_menu", <<>>, 200,
                              Map(items, LAMBDA i : pop(i, "_id"))))
    /\ UNCHANGED <<db, nextId>>

create_menu_item(c, item) ==
    /\ Idle(c)
    /\ nextId <= MaxDocs
    /\ db' = create_document(db, "menuitem", MenuItem(item), nextId)
    /\ nextId' = nextId + 1
    /\ Return(c, Response("create_menu_item", item, 201, [id |-> str(nextId)]))

(***************************************************************************)
(* Reservations                                                            *)
(***************************************************************************)
create_reservation(c, res) ==
    /\ Idle(c)
    /\ nextId <= MaxDocs
    /\ db' = create_document(db, "reservation", Reservation(res), nextId)
    /\ nextId' = nextId + 1
    /\ Return(c, Response("create_reservation", res, 201,
                          [id |-> str(nextId), status |-> "confirmed"]))

\* list_reservations with the filter never built
list_reservations_unfiltered(c, email) ==
    /\ Idle(c)
    /\ LET docs == get_documents(db, "reservation", <<>>)
       IN  Return(c, Response("list_reservations", email, 200, Map(docs, rename_id)))
    /\ UNCHANGED <<db, nextId>>

\* email is <<>> when the query parameter is omitted, else <<address>>
list_reservations(c, email) ==
    /\ Idle(c)
    /\ LET filt == IF Len(email) # 0 THEN [email |-> email[1]] ELSE <<>>
           docs == get_documents(db, "reservation", filt)
       IN  Return(c, Response("list_reservations", email, 200, Map(docs, rename_id)))
    /\ UNCHANGED <<db, nextId>>

(***************************************************************************)
(* Events                                                                  *)
(***************************************************************************)
list_events(c) ==
    /\ Idle(c)
    /\ LET docs == get_documents(db, "event", <<>>)
       IN  Return(c, Response("list_events", <<>>, 200, Map(docs, rename_id)))
    /\ UNCHANGED <<db, nextId>>

create_event(c, event) ==
    /\ Idle(c)
    /\ nextId <= MaxDocs
    /\ db' = create_document(db, "event", Event(event), nextId)
    /\ nextId' = nextId + 1
    /\ Return(c, Response("create_event", event, 201, [id |-> str(nextId)]))

\* register_event_find with the "if not ev" test lost
register_event_find_unchecked(c, event_id, reg) ==
    LET args == [event_id |-> event_id, reg |-> reg]
        ev == find_one(db["event"], [_id |-> to_object_id(event_id)])
    IN  /\ Idle(c)
        /\ nextId <= MaxDocs
        /\ IF to_object_id(event_id) = 0
           THEN Return(c, HTTPException("register_event", args, 400, "Invalid ID format"))
           ELSE Pause(c, "register_event", args, ev)
        /\ UNCHANGED <<db, nextId>>

\* register_event up to the end of its lookup: to_object_id, find_one and
\* the "if not ev" test
register_event_find(c, event_id, reg) ==
    LET args == [event_id |-> event_id, reg |-> reg]
        ev == find_one(db["event"], [_id |-> to_object_id(event_id)])
    IN  /\ Idle(c)
        /\ nextId <= MaxDocs
        /\ IF to_object_id(event_id) = 0
           THEN Return(c, HTTPException("register_event", args, 400, "Invalid ID format"))
           ELSE IF ev = <<>>
           THEN Return(c, HTTPException("register_event", args, 404, "Event not found"))
           ELSE Pause(c, "register_event", args, ev)
        /\ UNCHANGED <<db, nextId>>

\* register_event_insert with the payload["event_id"] = event_id line lost
register_event_insert_body_id(c) ==
    LET args == local[c].args
        payload == EventRegistration(args.reg)
    IN  /\ pc[c] = "register_event"
        /\ nextId <= MaxDocs
        /\ db' = [db EXCEPT !["eventregistration"] = insert_one(@, payload, nextId)]
        /\ nextId' = nextId + 1
        /\ Finish(c, Response("register_event", args, 201, [id |-> str(nextId)]))

\* register_event from payload = reg.model_dump() to its return
register_event_insert(c) ==
    LET args == local[c].args
        payload == [EventRegistration(args.reg) EXCEPT !.event_id = args.event_id]
    IN  /\ pc[c] = "register_event"
        /\ nextId <= MaxDocs
        /\ db' = [db EXCEPT !["eventregistration"] = insert_one(@, payload, nextId)]
        /\ nextId' = nextId + 1
        /\ Finish(c, Response("register_event", args, 201, [id |-> str(nextId)]))

(***************************************************************************)
(* Blog                                                                    *)
(***************************************************************************)
list_posts(c) ==
    /\ Idle(c)
    /\ LET posts == get_documents(db, "blogpost", <<>>)
       IN  Return(c, Response("list_posts", <<>>, 200, Map(posts, rename_id)))
    /\ UNCHANGED <<db, nextId>>

\* create_post with the "is None" test lost: published_at is always stamped
create_post_always_stamped(c, post, utcnow) ==
    LET stamped == [BlogPost(post) EXCEPT !.published_at = utcnow]
    IN  /\ Idle(c)
        /\ nextId <= MaxDocs
        /\ db' = create_document(db, "blogpost", stamped, nextId)
        /\ nextId' = nextId + 1
        /\ Return(c, Response("create_post", post, 201, [id |-> str(nextId)]))

\* utcnow is what datetime.utcnow() returns during the call
create_post(c, post, utcnow) ==
    LET validated == BlogPost(post)
        stamped == IF validated.published_at = None
                   THEN [validated EXCEPT !.published_at = utcnow]
                   ELSE validated
    IN  /\ Idle(c)
        /\ nextId <= MaxDocs
        /\ db' = create_document(db, "blogpost", stamped, nextId)
        /\ nextId' = nextId + 1
        /\ Return(c, Response("create_post", post, 201, [id |-> str(nextId)]))

(***************************************************************************)
(* Gallery                                                                 *)
(***************************************************************************)
list_gallery(c) ==
    /\ Idle(c)
    /\ LET imgs == get_documents(db, "galleryimage", <<>>)
       IN  Return(c, Response("list_gallery", <<>>, 200, Map(imgs, rename_id)))
    /\ UNCHANGED <<db, nextId>>

add_gallery_image(c, img) ==
    /\ Idle(c)
    /\ nextId <= MaxDocs
    /\ db' = create_document(db, "galleryimage", GalleryImage(img), nextId)
    /\ nextId' = nextId + 1
    /\ Return(c, Response("add_gallery_image", img, 201, [id |-> str(nextId)]))

(***************************************************************************)
(* Newsletter                                                              *)
(***************************************************************************)
\* subscribe up to the end of its lookup
subscribe_find(c, sub) ==
    LET existing == find_one(db["newslettersubscriber"], [email |-> sub.email])
    IN  /\ Idle(c)
        /\ existing # <<>> \/ nextId <= MaxDocs
        /\ Pause(c, "subscribe", sub, existing)
        /\ UNCHANGED <<db, nextId>>

\* subscribe_write with the "if existing" branch lost: every call inserts
subscribe_write_always_insert(c) ==
    LET sub == local[c].args
    IN  /\ pc[c] = "subscribe"
        /\ nextId <= MaxDocs
        /\ db' = create_document(db, "newslettersubscriber",
                                 NewsletterSubscriber(sub), nextId)
        /\ nextId' = nextId + 1
        /\ Finish(c, Response("subscribe", sub, 201,
                              [id |-> str(nextId), updated |-> FALSE]))

\* subscribe from "if existing" to its return
subscribe_write(c) ==
    LET sub == local[c].args
        existing == local[c].found
    IN  /\ pc[c] = "subscribe"
        /\ IF existing # <<>>
           THEN /\ db' = [db EXCEPT !["newslettersubscriber"] =
                             update_one(@, existing[1]._id, NewsletterSubscriber(sub))]
                /\ UNCHANGED nextId
                /\ Finish(c, Response("subscribe", sub, 201,
                                      [id |-> str(existing[1]._id), updated |-> TRUE]))
           ELSE /\ nextId <= MaxDocs
                /\ db' = create_document(db, "newslettersubscriber",
                                         NewsletterSubscriber(sub), nextId)
                /\ nextId' = nextId + 1
                /\ Finish(c, Response("subscribe", sub, 201,
                                      [id |-> str(nextId), updated |-> FALSE]))

(***************************************************************************)
(* Contact                                                                 *)
(***************************************************************************)
contact(c, msg) ==
    /\ Idle(c)
    /\ nextId <= MaxDocs
    /\ db' = create_document(db, "contactmessage", ContactMessage(msg), nextId)
    /\ nextId' = nextId + 1
    /\ Return(c, Response("contact", msg, 201,
                          [id |-> str(nextId), received |-> TRUE]))

(***************************************************************************)
(* Auth scaffold                                                           *)
(***************************************************************************)
\* register_user_find with the lookup keyed on the name instead of the e-mail
register_user_find_by_name(c, name, email, password) ==
    LET args == [name |-> name, email |-> email, password |-> password]
    IN  /\ Idle(c)
        /\ nextId <= MaxDocs
        /\ IF find_one(db["user"], [name |-> name]) # <<>>
           THEN Return(c, HTTPException("register_user", args, 400,
                                        "Email already registered"))
           ELSE Pause(c, "register_user", args, <<>>)
        /\ UNCHANGED <<db, nextId>>

\* register_user up to the end of its lookup and the "already registered" test
register_user_find(c, name, email, password) ==
    LET args == [name |-> name, email |-> email, password |-> password]
    IN  /\ Idle(c)
        /\ nextId <= MaxDocs
        /\ IF find_one(db["user"], [email |-> email]) # <<>>
           THEN Return(c, HTTPException("register_user", args, 400,
                                        "Email already registered"))
           ELSE Pause(c, "register_user", args, <<>>)
        /\ UNCHANGED <<db, nextId>>

\* register_user from building the User to its return
register_user_insert(c) ==
    LET args == local[c].args
        user == User(args.name, args.email, hash_password(args.password))
    IN  /\ pc[c] = "register_user"
        /\ nextId <= MaxDocs
        /\ db' = [db EXCEPT !["user"] = insert_one(@, user, nextId)]
        /\ nextId' = nextId + 1
        /\ Finish(c, Response("register_user", args, 200, [id |-> str(nextId)]))

login_user(c, email, password) ==
    LET args == [email |-> email, password |-> password]
        u == find_one(db["user"], [email |-> email])
    IN  /\ Idle(c)
        /\ IF u = <<>> \/ u[1].password_hash # hash_password(password)
           THEN Return(c, HTTPException("login_user", args, 401, "Invalid credentials"))
           ELSE Return(c, Response("login_user", args, 200,
                    [token |-> token(email, u[1]._id), name |-> u[1].name,
                     email |-> email, loyalty_points |-> u[1].loyalty_points]))
        /\ UNCHANGED <<db, nextId>>

(***************************************************************************)
(* Analytics                                                               *)
(***************************************************************************)
track(c, event_name, path, metadata, utcnow) ==
    LET payload == [event_name |-> event_name, path |-> path,
                    metadata |-> metadata, ts |-> utcnow]
    IN  /\ Idle(c)
        /\ nextId <= MaxDocs
        /\ db' = [db EXCEPT !["analytics_event"] = insert_one(@, payload, nextId)]
        /\ nextId' = nextId + 1
        /\ Return(c, Response("track", payload, 200, [ok |-> TRUE]))

(***************************************************************************)
(* Request inputs                                                          *)
(***************************************************************************)
MenuItemInputs ==
    {[title |-> "latte", description |-> <<>>, price |-> 3, category |-> "coffee",
      image_url |-> <<>>, is_active |-> a] : a \in {<<>>, <<TRUE>>, <<FALSE>>}}

ReservationInputs ==
    {[name |-> "Ann", email |-> e, date |-> "2025-01-01", time |-> "18:00",
      guests |-> 2, special_requests |-> <<>>, member_email |-> <<>>,
      status |-> s] : e \in Emails, s \in {<<>>, <<"cancelled">>}}

EventInputs ==
    {[title |-> "cupping", description |-> <<>>, date |-> "2025-01-01",
      time |-> "18:00", image_url |-> <<>>, capacity |-> k, price |-> <<>>] :
        k \in {<<>>, <<10>>}}

\* the body's own event_id is any string
RegistrationInputs ==
    {[event_id |-> b, name |-> "Ann", email |-> "a@x.com", member_email |-> <<>>,
      tier |-> <<>>] : b \in {Malformed, HexStr(1, FALSE)}}

BlogPostInputs ==
    {[title |-> "news", content |-> "text", image_url |-> <<>>, author |-> <<>>,
      tags |-> <<>>, published_at |-> t] : t \in {<<>>, <<"t0">>}}

GalleryImageInputs ==
    {[title |-> t, image_url |-> "http://x/i.png", description |-> <<>>] :
        t \in {<<>>, <<"wall">>}}

NewsletterInputs ==
    {[email |-> e, name |-> n, source |-> s] :
        e \in Emails, n \in {<<>>, <<"Ann">>}, s \in {<<>>, <<"app">>}}

ContactInputs ==
    {[name |-> "Ann", email |-> "a@x.com", message |-> "hello", topic |-> <<>>]}

EmailFilters == {<<>>} \cup {<<e>> : e \in Emails}

\* the inputs of the specifications that interleave clients or run every
\* endpoint: one payload per entity, except where the payloads must differ
OneOf(S) == {CHOOSE x \in S : TRUE}

FewNewsletterInputs == {sub \in NewsletterInputs : sub.source = <<>>}

FewIdStrs == {s \in IdStrs : ~s.upper}

(***************************************************************************)
(* Specifications                                                          *)
(***************************************************************************)
\* menu, reservations, events, blog and gallery, one request at a time
ContentNext ==
    \/ list_menu(1)
    \/ \E item \in MenuItemInputs : create_menu_item(1, item)
    \/ \E res \in ReservationInputs : create_reservation(1, res)
    \/ \E email \in EmailFilters : list_reservations(1, email)
    \/ list_events(1)
    \/ \E event \in EventInputs : create_event(1, event)
    \/ list_posts(1)
    \/ \E post \in BlogPostInputs, utcnow \in Times : create_post(1, post, utcnow)
    \/ list_gallery(1)
    \/ \E img \in GalleryImageInputs : add_gallery_image(1, img)

ContentSpec == Init /\ [][ContentNext]_vars

\* events and registrations, the requests of two clients interleaved
EventNext ==
    \E c \in {1, 2} :
        \/ \E event \in OneOf(EventInputs) : create_event(c, event)
        \/ \E event_id \in IdStrs, reg \in RegistrationInputs :
               register_event_find(c, event_id, reg)
        \/ register_event_insert(c)

EventSpec == Init /\ [][EventNext]_vars

\* accounts and newsletter, one request at a time
AccountNext ==
    \/ \E sub \in NewsletterInputs : subscribe_find(1, sub)
    \/ subscribe_write(1)
    \/ \E name \in Names, email \in Emails, password \in Passwords :
           register_user_find(1, name, email, password)
    \/ register_user_insert(1)
    \/ \E email \in Emails, password \in Passwords : login_user(1, email, password)

AccountSpec == Init /\ [][AccountNext]_vars

\* accounts and newsletter, requests of the clients interleaved
ConcurrentNext ==
    \E c \in Clients :
        \/ \E sub \in {n \in FewNewsletterInputs : n.name = <<>>} :
               subscribe_find(c, sub)
        \/ subscribe_write(c)
        \/ \E name \in OneOf(Names), email \in Emails, password \in Passwords :
               register_user_find(c, name, email, password)
        \/ register_user_insert(c)
        \/ \E email \in Emails, password \in Passwords : login_user(c, email, password)

ConcurrentSpec == Init /\ [][ConcurrentNext]_vars

\* every endpoint, one request at a time
Next ==
    \/ root(1)
    \/ \E url_set \in BOOLEAN : test_database(1, url_set)
    \/ list_menu(1)
    \/ \E item \in OneOf(MenuItemInputs) : create_menu_item(1, item)
    \/ \E res \in OneOf(ReservationInputs) : create_reservation(1, res)
    \/ \E email \in OneOf(EmailFilters) : list_reservations(1, email)
    \/ list_events(1)
    \/ \E event \in OneOf(EventInputs) : create_event(1, event)
    \/ \E event_id \in FewIdStrs, reg \in OneOf(RegistrationInputs) :
           register_event_find(1, event_id, reg)
    \/ register_event_insert(1)
    \/ list_posts(1)
    \/ \E post \in OneOf(BlogPostInputs), utcnow \in OneOf(Times) :
           create_post(1, post, utcnow)
    \/ list_gallery(1)
    \/ \E img \in OneOf(GalleryImageInputs) : add_gallery_image(1, img)
    \/ \E sub \in FewNewsletterInputs : subscribe_find(1, sub)
    \/ subscribe_write(1)
    \/ \E msg \in ContactInputs : contact(1, msg)
    \/ \E name \in OneOf(Names), email \in Emails, password \in OneOf(Passwords) :
           register_user_find(1, name, email, password)
    \/ register_user_insert(1)
    \/ \E email \in Emails, password \in Passwords : login_user(1, email, password)
    \/ \E utcnow \in OneOf(Times) : track(1, "page_view", None, None, utcnow)

Spec == Init /\ [][Next]_vars

(***************************************************************************)
(* Properties                                                              *)
(***************************************************************************)
Range(s) == {s[i] : i \in 1..Len(s)}

\* the documents of a collection whose email is e, in store order
WithEmail(coll, e) == SelectSeq(coll, LAMBDA doc : doc.email = e)

\* client c's subscribe returns in this step
SubscribeReturns(c) == pc[c] = "subscribe" /\ pc'[c] = "idle"

\* client c's register_user call for email e arrives in this step
RegisterCalled(c, e) ==
    /\ pc[c] = "idle"
    /\ \/ pc'[c] = "register_user" /\ local'[c].args.email = e
       \/ /\ pc'[c] = "idle"
          /\ last'[c] # last[c]
          /\ last'[c].op = "register_user"
          /\ last'[c].args.email = e

\* C1: a subscribe for an e-mail with no subscriber returns updated = false;
\* a subscribe that directly follows a subscribe for the same e-mail returns
\* updated = true with the first call's id; and after either, the collection
\* holds exactly one document with that e-mail, whose fields are those of
\* the payload just submitted.
C1_SubscribeTwice ==
    [][SubscribeReturns(1) =>
        LET sub == local[1].args
            before == WithEmail(db["newslettersubscriber"], sub.email)
            after == WithEmail(db'["newslettersubscriber"], sub.email)
        IN  /\ last'[1].status = 201
            /\ before = <<>> => last'[1].body.updated = FALSE
            /\ (last[1].op = "subscribe" /\ last[1].args.email = sub.email) =>
                   /\ last'[1].body.updated = TRUE
                   /\ last'[1].body.id = last[1].body.id
            /\ Len(after) = 1
            /\ str(after[1]._id) = last'[1].body.id
            /\ pop(after[1], "_id") = NewsletterSubscriber(sub)]_vars

\* a second subscribe for the same e-mail has replaced a stored name
C1_Witness ==
    /\ last[1].op = "subscribe"
    /\ last[1].body.updated = TRUE
    /\ last[1].args.name = <<"Ann">>
    /\ Len(db["newslettersubscriber"]) = 2
    /\ \E doc \in Range(db["newslettersubscriber"]) :
           doc.email = last[1].args.email /\ doc.name = "Ann" /\ doc.source = "app"

\* C2: the user collection and the newslettersubscriber collection hold at
\* most one document per e-mail, whatever the interleaving of requests.
C2_UniqueEmails ==
    \A n \in {"user", "newslettersubscriber"} :
        \A i, j \in 1..Len(db[n]) : db[n][i].email = db[n][j].email => i = j

\* C3: a register_user call for an e-mail without a User goes on to insert
\* exactly one User and returns its id; a call for an e-mail that has a
\* User, in particular one directly after a successful call for the same
\* e-mail, fails with 400 "Email already registered" and changes no
\* collection, whatever name and password it carries.
C3_RegisterTwice ==
    [][/\ \A e \in Emails :
              RegisterCalled(1, e) =>
                  IF WithEmail(db["user"], e) = <<>>
                  THEN pc'[1] = "register_user" /\ db' = db
                  ELSE /\ last'[1].status = 400
                       /\ last'[1].body = [detail |-> "Email already registered"]
                       /\ db' = db
       /\ \A e \in Emails :
              (/\ RegisterCalled(1, e)
               /\ last[1].op = "register_user"
               /\ last[1].status = 200
               /\ last[1].args.email = e) => last'[1].status = 400
       /\ (pc[1] = "register_user" /\ pc'[1] = "idle") =>
              LET args == local[1].args
              IN  /\ Len(db'["user"]) = Len(db["user"]) + 1
                  /\ SubSeq(db'["user"], 1, Len(db["user"])) = db["user"]
                  /\ \A n \in Collections \ {"user"} : db'[n] = db[n]
                  /\ pop(db'["user"][Len(db'["user"])], "_id") =
                         User(args.name, args.email, hash_password(args.password))
                  /\ last'[1].status = 200
                  /\ last'[1].body = [id |-> str(db'["user"][Len(db'["user"])]._id)]]_vars

\* a second registration of a registered e-mail, with another name and
\* password, was refused
C3_Witness ==
    /\ last[1].op = "register_user"
    /\ last[1].status = 400
    /\ Len(db["user"]) = 1
    /\ db["user"][1].email = last[1].args.email
    /\ db["user"][1].password_hash # hash_password(last[1].args.password)
    /\ db["user"][1].name # last[1].args.name

\* client c's register_event call for path identifier event_id arrives in
\* this step
RegisterEventCalled(c, event_id) ==
    /\ pc[c] = "idle"
    /\ \/ pc'[c] = "register_event" /\ local'[c].args.event_id = event_id
       \/ /\ pc'[c] = "idle"
          /\ last'[c] # last[c]
          /\ last'[c].op = "register_event"
          /\ last'[c].args.event_id = event_id

\* the event documents an identifier string denotes
EventsOf(event_id) ==
    {ev \in Range(db["event"]) : event_id.hex /\ ev._id = event_id.oid}

\* C4: register_event has three outcomes, fixed by the path identifier: a
\* malformed one gives 400 "Invalid ID format" and inserts nothing; a
\* well-formed one that no Event carries gives 404 "Event not found" and
\* inserts nothing; a well-formed one of a stored Event goes on to insert
\* exactly one eventregistration document and returns 201 with its id.
C4_RegisterEventOutcomes ==
    [][\A c \in {1, 2} :
        /\ \A event_id \in IdStrs :
              RegisterEventCalled(c, event_id) =>
                  /\ db' = db
                  /\ IF ~event_id.hex
                     THEN /\ last'[c].status = 400
                          /\ last'[c].body = [detail |-> "Invalid ID format"]
                          /\ pc'[c] = "idle"
                     ELSE IF EventsOf(event_id) = {}
                     THEN /\ last'[c].status = 404
                          /\ last'[c].body = [detail |-> "Event not found"]
                          /\ pc'[c] = "idle"
                     ELSE pc'[c] = "register_event"
        /\ (pc[c] = "register_event" /\ pc'[c] = "idle") =>
              LET regs == db["eventregistration"]
                  regs2 == db'["eventregistration"]
              IN  /\ Len(regs2) = Len(regs) + 1
                  /\ SubSeq(regs2, 1, Len(regs)) = regs
                  /\ \A n \in Collections \ {"eventregistration"} : db'[n] = db[n]
                  /\ \A i \in 1..Len(regs) : regs[i]._id # regs2[Len(regs2)]._id
                  /\ last'[c].status = 201
                  /\ last'[c].body = [id |-> str(regs2[Len(regs2)]._id)]]_vars

\* all three outcomes have been produced: a registration is stored, one
\* client's call for a well-formed identifier of no event was refused with
\* 404 and the other's call for a malformed identifier with 400
C4_Witness ==
    /\ Len(db["eventregistration"]) = 1
    /\ last[1].op = "register_event"
    /\ last[1].status = 404
    /\ last[1].args.event_id.hex
    /\ last[2].op = "register_event"
    /\ last[2].status = 400
    /\ ~last[2].args.event_id.hex

\* C10: every stored registration's event_id denotes the identifier of a
\* stored event, and the event_id a successful registration stored is the
\* path parameter, not the body's event_id.
C10_ReferentialIntegrity ==
    /\ \A r \in Range(db["eventregistration"]) : EventsOf(r.event_id) # {}
    /\ \A c \in {1, 2} :
           (last[c].op = "register_event" /\ last[c].status = 201) =>
               \E r \in Range(db["eventregistration"]) :
                   /\ str(r._id) = last[c].body.id
                   /\ r.event_id = last[c].args.event_id

\* a registration was stored whose body named another event_id than the
\* path, the path spelling its identifier in upper case
C10_Witness ==
    /\ last[1].op = "register_event"
    /\ last[1].status = 201
    /\ last[1].args.reg.event_id # last[1].args.event_id
    /\ \E r \in Range(db["eventregistration"]) :
           r.event_id = last[1].args.event_id /\ r.event_id.upper

\* client c's login_user call returns in this step
LoginReturns(c) ==
    /\ pc[c] = "idle"
    /\ pc'[c] = "idle"
    /\ last'[c] # last[c]
    /\ last'[c].op = "login_user"

\* the users a login's e-mail and password fit
Fitting(email, password) ==
    {u \in Range(db["user"]) :
        u.email = email /\ u.password_hash = hash_password(password)}

\* C5: login_user succeeds, with the token, name, e-mail and loyalty_points 0
\* of a user that register_user created, exactly when a User with the given
\* e-mail and the digest of the given password is stored; otherwise it
\* answers 401 "Invalid credentials", the same for an unknown e-mail and a
\* wrong password; the store is unchanged in every case.
C5_LoginIff ==
    [][\A c \in Clients :
        LoginReturns(c) =>
            LET args == last'[c].args
                fit == Fitting(args.email, args.password)
            IN  /\ db' = db
                /\ IF fit # {}
                   THEN /\ last'[c].status = 200
                        /\ \E u \in fit :
                               last'[c].body =
                                   [token |-> token(args.email, u._id),
                                    name |-> u.name, email |-> args.email,
                                    loyalty_points |-> 0]
                   ELSE /\ last'[c].status = 401
                        /\ last'[c].body = [detail |-> "Invalid credentials"]]_vars

\* the record a POST stored is the validated payload under the returned id
StoredAs(n, record) ==
    \E doc \in Range(db[n]) :
        str(doc._id) = last[1].body.id /\ pop(doc, "_id") = record

\* a GET's body carries every document of the collection, _id renamed to id
ListsAll(n) ==
    \A doc \in Range(db[n]) : rename_id(doc) \in Range(last[1].body)

\* the POST half of the round trip, for the five entities
PostsStored ==
    /\ last[1].op = "create_menu_item" => StoredAs("menuitem", MenuItem(last[1].args))
    /\ last[1].op = "create_reservation" =>
           StoredAs("reservation", Reservation(last[1].args))
    /\ last[1].op = "create_event" => StoredAs("event", Event(last[1].args))
    /\ last[1].op = "add_gallery_image" =>
           StoredAs("galleryimage", GalleryImage(last[1].args))
    /\ last[1].op = "create_post" =>
           IF Len(last[1].args.published_at) = 0
           THEN \E t \in Times :
                    StoredAs("blogpost", [BlogPost(last[1].args) EXCEPT !.published_at = t])
           ELSE StoredAs("blogpost", BlogPost(last[1].args))

\* the GET half of the round trip, for the four entities listed with an id
GetsListed ==
    /\ last[1].op = "list_reservations" /\ Len(last[1].args) = 0 => ListsAll("reservation")
    /\ last[1].op = "list_events" => ListsAll("event")
    /\ last[1].op = "list_posts" => ListsAll("blogpost")
    /\ last[1].op = "list_gallery" => ListsAll("galleryimage")

\* C6 as claimed: every record a POST endpoint created, of the five entities
\* menu item, reservation, event, blog post and gallery image, is in the
\* result of its GET endpoint with its fields preserved and its identifier
\* rendered as the string field id.
C6_RoundTripAll ==
    /\ PostsStored
    /\ GetsListed
    /\ last[1].op = "list_menu" => ListsAll("menuitem")

\* C6 as amended: the round trip holds with the id field for reservation,
\* event, blog post and gallery image; a menu item is stored with its
\* fields preserved, and GET /api/menu carries it only if it is active, and
\* then without any identifier field.
C6_RoundTrip ==
    /\ PostsStored
    /\ GetsListed
    /\ last[1].op = "list_menu" =>
           /\ \A doc \in Range(db["menuitem"]) :
                  doc.is_active => pop(doc, "_id") \in Range(last[1].body)
           /\ \A item \in Range(last[1].body) :
                  item.is_active /\ "id" \notin DOMAIN item

\* a blog post created without published_at and one created with it are
\* both in the listing, each under its id
C6_Witness ==
    /\ last[1].op = "list_posts"
    /\ Len(last[1].body) = 2
    /\ last[1].body[1].published_at \in Times
    /\ last[1].body[2].published_at = "t0"
    /\ last[1].body[2].id = str(db["blogpost"][2]._id)
    /\ \E doc \in Range(db["menuitem"]) : ~doc.is_active

\* C7: GET /api/menu returns exactly the stored menu items with
\* is_active = true, none with is_active = false, and no returned item
\* carries an identifier field, neither _id nor id.
C7_MenuActiveOnly ==
    last[1].op = "list_menu" =>
        LET menu == db["menuitem"]
            body == last[1].body
        IN  /\ \A item \in Range(body) :
                   /\ item.is_active = TRUE
                   /\ "_id" \notin DOMAIN item
                   /\ "id" \notin DOMAIN item
            /\ Len(body) = Cardinality({i \in 1..Len(menu) : menu[i].is_active})
            /\ \A i \in 1..Len(menu) :
                   menu[i].is_active => pop(menu[i], "_id") \in Range(body)

\* the menu was listed with an inactive item and two active items stored
C7_Witness ==
    /\ last[1].op = "list_menu"
    /\ Len(last[1].body) = 2
    /\ Len(db["menuitem"]) = 3
    /\ ~db["menuitem"][2].is_active

\* client c's list_reservations call returns in this step
ListReservationsReturns(c) ==
    /\ pc[c] = "idle"
    /\ pc'[c] = "idle"
    /\ last'[c] # last[c]
    /\ last'[c].op = "list_reservations"

\* C8: GET /api/reservations with an e-mail filter returns exactly the
\* stored reservations whose email equals the filter, letter case included,
\* and with no filter every stored reservation; the store is left unchanged.
C8_ReservationFilter ==
    [][ListReservationsReturns(1) =>
        LET email == last'[1].args
            stored == db["reservation"]
            body == last'[1].body
            wanted == {i \in 1..Len(stored) :
                          Len(email) = 0 \/ stored[i].email = email[1]}
        IN  /\ db' = db
            /\ last'[1].status = 200
            /\ Len(body) = Cardinality(wanted)
            /\ \A i \in wanted : rename_id(stored[i]) \in Range(body)
            /\ \A item \in Range(body) :
                   \E i \in wanted : item = rename_id(stored[i])]_vars

\* the reservations were listed for a@x.com while one for A@x.com was stored
C8_Witness ==
    /\ last[1].op = "list_reservations"
    /\ last[1].args = <<"a@x.com">>
    /\ Len(last[1].body) = 2
    /\ \E doc \in Range(db["reservation"]) : doc.email = "A@x.com"

\* C9: no step deletes a document or changes a stored document, except
\* that subscribe's write may change the fields of a newslettersubscriber
\* document whose email is the one subscribed.
C9_OnlyNewsletterMutates ==
    [][\A n \in Collections :
        /\ Len(db'[n]) >= Len(db[n])
        /\ \A i \in 1..Len(db[n]) :
               /\ db'[n][i]._id = db[n][i]._id
               /\ \/ db'[n][i] = db[n][i]
                  \/ /\ n = "newslettersubscriber"
                     /\ \E c \in Clients :
                            /\ pc[c] = "subscribe"
                            /\ pc'[c] = "idle"
                            /\ local[c].args.email = db[n][i].email]_vars

\* with two subscribers and a user stored, a subscribe has replaced the
\* second subscriber's name
C9_Witness ==
    /\ last[1].op = "subscribe"
    /\ last[1].body.updated = TRUE
    /\ Len(db["newslettersubscriber"]) = 2
    /\ last[1].body.id = str(db["newslettersubscriber"][2]._id)
    /\ db["newslettersubscriber"][2].name = "Ann"
    /\ Len(db["user"]) = 1

====
